---- MODULE Spec2Model ----
(***************************************************************************)
(* ACORD form field extractor (extract_acord_fields.py).                   *)
(*                                                                         *)
(* A Python str is modelled as a sequence of characters, a character as a  *)
(* one-element string.  Characters outside ASCII carry their code point as *)
(* name ("U+2610" is the ballot box).                                      *)
(***************************************************************************)
EXTENDS Integers, Sequences, FiniteSets, TLC

VARIABLES
    pc,            \* position of main(): "main", "extract_fields", "pages", "save_results", "exit";
                   \* of identify_field_names run on its own: "identify_field_names", "return"
    images,        \* extract_fields: the rasterized pages, each named by the text OCR reads off it
    page,          \* extract_fields: number of pages the loop has completed
    text,          \* extract_fields: OCR text of the page last processed
    fields,        \* extract_fields: identify_field_names(text) of the page last processed
    field_names,   \* self.field_names
    sorted_fields, \* save_results: sorted(self.field_names)
    report,        \* content of the file at self.output_path written by this run, or NoFile
    exit_code,     \* process exit status, Running while main() runs
    error          \* what ended the run early, "none" otherwise

vars == <<pc, images, page, text, fields, field_names, sorted_fields, report, exit_code, error>>

-----------------------------------------------------------------------------
(* Characters *)

Upper == {"A", "B", "C", "D", "E", "F", "G", "H", "I", "J", "K", "L", "M",
          "N", "O", "P", "Q", "R", "S", "T", "U", "V", "W", "X", "Y", "Z"}
Lower == {"a", "b", "c", "d", "e", "f", "g", "h", "i", "j", "k", "l", "m",
          "n", "o", "p", "q", "r", "s", "t", "u", "v", "w", "x", "y", "z"}
Digits == {"0", "1", "2", "3", "4", "5", "6", "7", "8", "9"}

\* str.strip(), str.split() and the regex class \s
Whitespace == {" ", "\t"}

\* the regex class [A-Za-z\s&/\-,()]
LabelClass == Upper \cup Lower \cup Whitespace \cup {"&", "/", "-", ",", "(", ")"}

\* the regex class [☐□○◯O]
CheckboxGlyphs == {"U+2610", "U+25A1", "U+25CB", "U+25EF", "O"}

\* str.isupper() of one character: the ASCII capitals and the capitals beyond ASCII
IsUpper(c) == c \in Upper \cup {"U+00C9"}

\* the printable ASCII characters, code points 32 to 126 in order
Ascii == <<" ", "!", "U+0022", "#", "$", "%", "&", "'", "(", ")", "*", "+", ",", "-", ".", "/",
           "0", "1", "2", "3", "4", "5", "6", "7", "8", "9", ":", ";", "<", "=", ">", "?",
           "@", "A", "B", "C", "D", "E", "F", "G", "H", "I", "J", "K", "L", "M", "N", "O",
           "P", "Q", "R", "S", "T", "U", "V", "W", "X", "Y", "Z", "[", "U+005C", "]", "^", "_",
           "U+0060", "a", "b", "c", "d", "e", "f", "g", "h", "i", "j", "k", "l", "m", "n", "o",
           "p", "q", "r", "s", "t", "u", "v", "w", "x", "y", "z", "{", "|", "}", "~">>

\* the code point of a character, the key of Python's str comparison
CodePoint(c) ==
    CASE c = "\t" -> 9
      [] c = "\n" -> 10
      [] c = "U+00C9" -> 201
      [] c = "U+25A1" -> 9633
      [] c = "U+25CB" -> 9675
      [] c = "U+25EF" -> 9711
      [] c = "U+2610" -> 9744
      [] OTHER -> 31 + (CHOOSE k \in 1..Len(Ascii) : Ascii[k] = c)

-----------------------------------------------------------------------------
(* str operations *)

Range(s) == {s[k] : k \in 1..Len(s)}

\* every character of s[a..b] is in the class C
AllIn(s, a, b, C) == \A k \in a..b : s[k] \in C

\* the first index at or after i whose character is outside C, Len(s)+1 if none
RECURSIVE SpanEnd(_, _, _)
SpanEnd(s, i, C) ==
    IF i > Len(s) THEN i
    ELSE IF s[i] \in C THEN SpanEnd(s, i + 1, C) ELSE i

\* the last index at or before i whose character is outside C, 0 if none
RECURSIVE SpanStart(_, _, _)
SpanStart(s, i, C) ==
    IF i < 1 THEN 0
    ELSE IF s[i] \in C THEN SpanStart(s, i - 1, C) ELSE i

\* s[a..b], empty when a > b
Slice(s, a, b) == IF a > b THEN <<>> ELSE SubSeq(s, a, b)

\* str.strip()
Strip(s) == Slice(s, SpanEnd(s, 1, Whitespace), SpanStart(s, Len(s), Whitespace))

\* the index of the first occurrence of the character c in s, 0 if none
Find(s, c) == IF c \in Range(s) THEN CHOOSE k \in 1..Len(s) : s[k] = c /\ \A j \in 1..(k - 1) : s[j] # c
              ELSE 0

\* str.split(sep) for a one-character separator
RECURSIVE Split(_, _)
Split(s, sep) ==
    LET k == Find(s, sep)
    IN  IF k = 0 THEN <<s>>
        ELSE <<Slice(s, 1, k - 1)>> \o Split(Slice(s, k + 1, Len(s)), sep)

\* len(s.split()): the number of maximal runs of non-whitespace characters
WordCount(s) ==
    Cardinality({k \in 1..Len(s) : s[k] \notin Whitespace /\ (k = 1 \/ s[k - 1] \in Whitespace)})

\* c * n
RECURSIVE Repeat(_, _)
Repeat(c, n) == IF n <= 0 THEN <<>> ELSE <<c>> \o Repeat(c, n - 1)

\* str(n) for n >= 0
RECURSIVE IntToStr(_)
IntToStr(n) ==
    LET d == <<"0", "1", "2", "3", "4", "5", "6", "7", "8", "9">>[(n % 10) + 1]
    IN  IF n < 10 THEN <<d>> ELSE IntToStr(n \div 10) \o <<d>>

\* a < b for str: by code point, a proper prefix first
RECURSIVE StrLess(_, _)
StrLess(a, b) ==
    IF b = <<>> THEN FALSE
    ELSE IF a = <<>> THEN TRUE
    ELSE IF a[1] # b[1] THEN CodePoint(a[1]) < CodePoint(b[1])
    ELSE StrLess(Tail(a), Tail(b))

-----------------------------------------------------------------------------
(* identify_field_names: the five patterns *)

MinLabelLen == 3
MinCheckboxLen == 2
MaxLabelLen == 100
MaxWords == 8

\* a regex match: whether the pattern matched and, if so, match.group(1)
NoMatch == [matched |-> FALSE, group |-> <<>>]

\* the indices g at which a group ([A-Z][A-Za-z\s&/\-,()]+) that starts at index a can end
GroupEnds(line, a) ==
    IF a >= 1 /\ a <= Len(line) /\ line[a] \in Upper
    THEN {g \in (a + 1)..Len(line) : AllIn(line, a + 1, g, LabelClass)}
    ELSE {}

\* a greedy quantifier: of the group ends G after which the rest of the pattern
\* matches, the regex engine takes the longest
Greedy(line, a, G) ==
    IF G = {} THEN NoMatch
    ELSE [matched |-> TRUE,
          group |-> SubSeq(line, a, CHOOSE g \in G : \A h \in G : h <= g)]

\* re.search(r'^([A-Z][A-Za-z\s&/\-,()]+):\s*$', line)
colon_pattern(line) ==
    Greedy(line, 1,
           {g \in GroupEnds(line, 1) :
               /\ g < Len(line)
               /\ line[g + 1] = ":"
               /\ AllIn(line, g + 2, Len(line), Whitespace)})

\* re.search(r'^([A-Z][A-Za-z\s&/\-,()]+)\s+_{2,}', line)
underscore_pattern(line) ==
    Greedy(line, 1,
           {g \in GroupEnds(line, 1) :
               \E w \in (g + 1)..(Len(line) - 2) :
                   /\ AllIn(line, g + 1, w, Whitespace)
                   /\ line[w + 1] = "_"
                   /\ line[w + 2] = "_"})

\* re.search(r'^\d+\.\s+([A-Z][A-Za-z\s&/\-,()]+)(?::|$)', line)
numbered_pattern(line) ==
    LET d == SpanEnd(line, 1, Digits)          \* the index after \d+
        w == SpanEnd(line, d + 1, Whitespace)  \* the index after \.\s+
    IN  IF d > 1 /\ d <= Len(line) /\ line[d] = "." /\ w > d + 1
        THEN Greedy(line, w,
                    {g \in GroupEnds(line, w) : g = Len(line) \/ line[g + 1] = ":"})
        ELSE NoMatch

\* re.search(r'^[☐□○◯O]\s+([A-Z][A-Za-z\s&/\-,()]+)', line)
checkbox_pattern(line) ==
    LET w == SpanEnd(line, 2, Whitespace)      \* the index after the glyph and \s+
    IN  IF Len(line) >= 1 /\ line[1] \in CheckboxGlyphs /\ w > 2
        THEN Greedy(line, w, GroupEnds(line, w))
        ELSE NoMatch

\* line and line[0].isupper() and ':' in line; the group is line.split(':')[0]
generic_pattern(line) ==
    IF Len(line) >= 1 /\ IsUpper(line[1]) /\ ":" \in Range(line)
    THEN [matched |-> TRUE, group |-> Split(line, ":")[1]]
    ELSE NoMatch

\* the upper bound taken inclusive
LabelOkInclusive(field_name) == Len(field_name) > MinLabelLen /\ Len(field_name) <= MaxLabelLen

\* len(field_name) > 3 and len(field_name) < 100
LabelOk(field_name) == Len(field_name) > MinLabelLen /\ Len(field_name) < MaxLabelLen

\* the checkbox rule given the bound of the other rules
CheckboxLabelOkStrict(field_name) == Len(field_name) > MinLabelLen /\ Len(field_name) < MaxLabelLen

\* len(field_name) > 2 and len(field_name) < 100
CheckboxLabelOk(field_name) == Len(field_name) > MinCheckboxLen /\ Len(field_name) < MaxLabelLen

\* len(field_name.split()) <= 8 and len(field_name) < 100
GenericLabelOk(field_name) == WordCount(field_name) <= MaxWords /\ Len(field_name) < MaxLabelLen

\* the pattern of rule k applied to a stripped line
Pattern(k, line) ==
    CASE k = 1 -> colon_pattern(line)
      [] k = 2 -> underscore_pattern(line)
      [] k = 3 -> numbered_pattern(line)
      [] k = 4 -> checkbox_pattern(line)
      [] k = 5 -> generic_pattern(line)

\* the length check of rule k
Accepts(k, field_name) ==
    CASE k \in {1, 2, 3} -> LabelOk(field_name)
      [] k = 4 -> CheckboxLabelOk(field_name)
      [] k = 5 -> GenericLabelOk(field_name)

\* a rule that appends match.group(1) without .strip()
RuleUnstripped(k, line) ==
    LET field_name == Pattern(k, line).group
    IN  IF Accepts(k, field_name) THEN <<field_name>> ELSE <<>>

\* one rule of the loop body: field_name = match.group(1).strip(), appended if
\* it passes the length check
Rule(k, line) ==
    LET field_name == Strip(Pattern(k, line).group)
    IN  IF Accepts(k, field_name) THEN <<field_name>> ELSE <<>>

\* the loop body without continue: later rules run on a line already claimed
RECURSIVE CascadeNoContinue(_, _)
CascadeNoContinue(k, line) ==
    IF k > 5 THEN <<>>
    ELSE IF Pattern(k, line).matched THEN Rule(k, line) \o CascadeNoContinue(k + 1, line)
    ELSE CascadeNoContinue(k + 1, line)

\* the loop body with continue inside the length check: a line whose label
\* fails the check is passed on to the later rules
RECURSIVE CascadeContinueOnAppend(_, _)
CascadeContinueOnAppend(k, line) ==
    IF k > 5 THEN <<>>
    ELSE IF Pattern(k, line).matched /\ Rule(k, line) # <<>> THEN Rule(k, line)
    ELSE CascadeContinueOnAppend(k + 1, line)

\* the rules from k on, as the loop body runs them: a rule whose pattern matches
\* ends the iteration (continue), whether or not it appended
RECURSIVE Cascade(_, _)
Cascade(k, line) ==
    IF k > 5 THEN <<>>
    ELSE IF Pattern(k, line).matched THEN Rule(k, line)
    ELSE Cascade(k + 1, line)

\* the loop body for one line of the text: what it appends to field_names
LineFields(raw) ==
    LET line == Strip(raw)
    IN  IF line = <<>> THEN <<>> ELSE Cascade(1, line)

\* the concatenation of a sequence of lists
RECURSIVE Concat(_)
Concat(lists) == IF lists = <<>> THEN <<>> ELSE Head(lists) \o Concat(Tail(lists))

identify_field_names(t) ==
    LET lines == Split(t, "\n")
    IN  Concat([k \in 1..Len(lines) |-> LineFields(lines[k])])

-----------------------------------------------------------------------------
(* save_results *)

RuleWidth == 50

\* self.pdf_path.name
PdfName == <<"a", "c", "o", "r", "d", ".", "p", "d", "f">>

\* sorted(S, reverse=True)
RECURSIVE sortedDescending(_)
sortedDescending(S) ==
    IF S = {} THEN <<>>
    ELSE LET m == CHOOSE x \in S : \A y \in S \ {x} : StrLess(y, x)
         IN  <<m>> \o sortedDescending(S \ {m})

\* sorted(S) for a set of str: ascending by StrLess
RECURSIVE sorted(_)
sorted(S) ==
    IF S = {} THEN <<>>
    ELSE LET m == CHOOSE x \in S : \A y \in S \ {x} : StrLess(x, y)
         IN  <<m>> \o sorted(S \ {m})

\* enumerate(names) rendered: the numbering starts at 0
NumberedLineFromZero(i, field) == IntToStr(i - 1) \o <<".", " ">> \o field \o <<"\n">>

\* enumerate(names, 1) rendered as f"{i}. {field}\n"
NumberedLine(i, field) == IntToStr(i) \o <<".", " ">> \o field \o <<"\n">>

\* the strings save_results passes to f.write, in order
ReportWrites(names) ==
    << <<"A", "C", "O", "R", "D", " ", "F", "o", "r", "m", " ", "F", "i", "e", "l", "d", " ",
         "N", "a", "m", "e", "s", "\n">>,
       Repeat("=", RuleWidth) \o <<"\n">>,
       <<"S", "o", "u", "r", "c", "e", ":", " ">> \o PdfName \o <<"\n">>,
       <<"T", "o", "t", "a", "l", " ", "F", "i", "e", "l", "d", "s", " ", "F", "o", "u", "n", "d",
         ":", " ">> \o IntToStr(Len(names)) \o <<"\n">>,
       Repeat("=", RuleWidth) \o <<"\n", "\n">> >>
    \o [k \in 1..Len(names) |-> NumberedLine(k, names[k])]

\* the file after the first n writes
Written(names, n) == [opened |-> TRUE, content |-> Concat(SubSeq(ReportWrites(names), 1, n))]

NoFile == [opened |-> FALSE, content |-> <<>>]

-----------------------------------------------------------------------------
(* Inputs *)

MaxPages == 2
MaxLen == 5
LongSlack == 2

\* s.join(parts) for a one-character separator
RECURSIVE Join(_, _)
Join(sep, parts) ==
    IF parts = <<>> THEN <<>>
    ELSE IF Len(parts) = 1 THEN parts[1]
    ELSE parts[1] \o <<sep>> \o Join(sep, Tail(parts))

ExampleLines ==
    << <<"N", "a", "m", "e", "d", " ", "I", "n", "s", "u", "r", "e", "d", ":">>,
       <<"A", "d", "d", "r", "e", "s", "s", " ", "_", "_", "_", "_", "_", "_", "_", "_">>,
       <<"1", ".", " ", "P", "o", "l", "i", "c", "y", " ", "N", "u", "m", "b", "e", "r">>,
       <<"U+2610", " ", "Y", "e", "s">>,
       <<"E", "f", "f", "e", "c", "t", "i", "v", "e", " ", "D", "a", "t", "e", ":", " ",
         "0", "1", "/", "0", "1", "/", "2", "0", "2", "4">> >>

ExamplePage == Join("\n", ExampleLines)

ZipPage == <<"Z", "i", "p", " ", "C", "o", "d", "e", ":">>

InsuredAgentPage ==
    Join("\n", << <<"N", "a", "m", "e", "d", " ", "I", "n", "s", "u", "r", "e", "d", ":">>,
                  <<"A", "g", "e", "n", "t", " ", "N", "a", "m", "e", ":">> >>)

CapsPage ==
    Join("\n", << <<"N", "A", "M", "E", "D", " ", "I", "N", "S", "U", "R", "E", "D", ":">>,
                  <<>>,
                  <<" ", " ", "N", "a", "m", "e", "d", " ", "I", "n", "s", "u", "r", "e", "d", " ",
                    ":", " ", "s", "e", "e", " ", "p", "a", "g", "e", " ", "t", "w", "o", " ", " ">> >>)

ProsePage ==
    Join("\n", << <<"p", "l", "e", "a", "s", "e", " ", "s", "i", "g", "n", " ", "a", "n", "d", " ",
                    "d", "a", "t", "e", " ", "t", "h", "i", "s", " ", "f", "o", "r", "m", " ",
                    "b", "e", "l", "o", "w">>,
                  <<"t", "h", "a", "n", "k", " ", "y", "o", "u", " ", "f", "o", "r", " ",
                    "y", "o", "u", "r", " ", "b", "u", "s", "i", "n", "e", "s", "s">> >>)

ManyPage ==
    Join("\n", << <<"B", "b", "b", "b", ":">>, <<"C", "c", "c", "c", ":">>,
                  <<"D", "d", "d", "d", ":">>, <<"E", "e", "e", "e", ":">>,
                  <<"F", "f", "f", "f", ":">>, <<"G", "g", "g", "g", ":">>,
                  <<"H", "h", "h", "h", ":">>, <<"I", "i", "i", "i", ":">>,
                  <<"J", "j", "j", "j", ":">>, <<"K", "k", "k", "k", ":">> >>)

\* what OCR may read off a page
PageTexts == {ExamplePage, ZipPage, InsuredAgentPage, CapsPage, ProsePage, ManyPage, <<>>}

\* every line of at most MaxLen characters over a small alphabet
ShortAlphabet == {"A", "b", " ", ":", "_", "1", ".", "O"}
ShortLines == UNION {[1..n -> ShortAlphabet] : n \in 0..MaxLen}

\* lines whose label is around the length bounds, in the shape of each rule
LabelLens == 1..(MinLabelLen + 2) \cup (MaxLabelLen - 2)..(MaxLabelLen + LongSlack)
LinePrefixes == {<<>>, <<"1", ".", " ">>, <<"U+2610", " ">>, <<"O", "\t">>, <<"U+00C9">>}
LineSuffixes == {<<>>, <<":">>, <<":", " ", "x">>, <<" ", "_", "_">>, <<" ", " ", "_", "_", "_", " ", "x">>}
LongLines ==
    {pre \o <<"A">> \o Repeat("a", n - 1) \o suf :
        pre \in LinePrefixes, n \in LabelLens, suf \in LineSuffixes}

\* lines whose label is around the word bound
WordyLines ==
    {Join(" ", [k \in 1..n |-> <<"A", "b">>]) \o suf :
        n \in (MaxWords - 1)..(MaxWords + 1), suf \in {<<":">>, <<":", " ", "x">>, <<" ", "_", "_">>}}

\* lines the rules are known to disagree on
NotedLines ==
    { <<"P", "o", "l", "i", "c", "y", " ", "N", "u", "m", "b", "e", "r", ":">>,
      <<"N", "o", "t", "e", ":", " ", "s", "e", "e", " ", "a", "t", "t", "a", "c", "h", "e", "d">>,
      <<"U+00C9", "t", "a", "g", "e", ":", " ", "2">>,
      <<"O", " ", "Y", "e", "s">>,
      <<"1", "2", ".", "\t", "A", "g", "e", "n", "t", " ", ":">> }

\* the texts handed to identify_field_names on its own
ClassifierTexts == ShortLines \cup LongLines \cup WordyLines \cup NotedLines \cup PageTexts

-----------------------------------------------------------------------------
(* main() *)

Running == -1

Init ==
    /\ pc = "main"
    /\ images = <<>>
    /\ page = 0
    /\ text = <<>>
    /\ fields = <<>>
    /\ field_names = {}
    /\ sorted_fields = <<>>
    /\ report = NoFile
    /\ exit_code = Running
    /\ error = "none"

\* sys.exit(1), from the except clause of main() or from extract_fields
Exit1(why) ==
    /\ pc' = "exit"
    /\ exit_code' = 1
    /\ error' = why

\* ACORDFieldExtractor(...): the PDF exists
Construct ==
    /\ pc = "main"
    /\ pc' = "extract_fields"
    /\ field_names' = {}
    /\ UNCHANGED <<images, page, text, fields, sorted_fields, report, exit_code, error>>

\* ACORDFieldExtractor(...): the PDF does not exist, FileNotFoundError
ConstructFails ==
    /\ pc = "main"
    /\ Exit1("FileNotFoundError")
    /\ UNCHANGED <<images, page, text, fields, field_names, sorted_fields, report>>

\* convert_from_path returns the pages
Rasterize ==
    /\ pc = "extract_fields"
    /\ \E n \in 0..MaxPages : images' \in [1..n -> PageTexts]
    /\ pc' = "pages"
    /\ UNCHANGED <<page, text, fields, field_names, sorted_fields, report, exit_code, error>>

\* convert_from_path raises
RasterizeFails ==
    /\ pc = "extract_fields"
    /\ Exit1("convert_from_path")
    /\ UNCHANGED <<images, page, text, fields, field_names, sorted_fields, report>>

\* self.field_names = set(fields)
updateReplace(S, list) == Range(list)

\* self.field_names.update(fields)
update(S, list) == S \cup Range(list)

\* an iteration that raises when the page has no field
ProcessPageStrict ==
    /\ pc = "pages"
    /\ page < Len(images)
    /\ text' = images[page + 1]
    /\ fields' = identify_field_names(text')
    /\ IF fields' = <<>>
       THEN /\ Exit1("no fields")
            /\ UNCHANGED <<page, field_names>>
       ELSE /\ field_names' = update(field_names, fields')
            /\ page' = page + 1
            /\ UNCHANGED <<pc, exit_code, error>>
    /\ UNCHANGED <<images, sorted_fields, report>>

\* one iteration of the loop over the pages
ProcessPage ==
    /\ pc = "pages"
    /\ page < Len(images)
    /\ text' = images[page + 1]
    /\ fields' = identify_field_names(text')
    /\ field_names' = update(field_names, fields')
    /\ page' = page + 1
    /\ UNCHANGED <<pc, images, sorted_fields, report, exit_code, error>>

\* a page failure that still saves what was found so far
PageRaisesSaved ==
    /\ pc = "pages"
    /\ page < Len(images)
    /\ sorted_fields' = sorted(field_names)
    /\ report' = Written(sorted_fields', Len(ReportWrites(sorted_fields')))
    /\ Exit1("extract_text_from_image")
    /\ UNCHANGED <<images, page, text, fields, field_names>>

\* preprocess_image or pytesseract raises on the next page
PageRaises ==
    /\ pc = "pages"
    /\ page < Len(images)
    /\ Exit1("extract_text_from_image")
    /\ UNCHANGED <<images, page, text, fields, field_names, sorted_fields, report>>

\* the loop is over: return self.field_names
ReturnFields ==
    /\ pc = "pages"
    /\ page = Len(images)
    /\ pc' = "save_results"
    /\ UNCHANGED <<images, page, text, fields, field_names, sorted_fields, report, exit_code, error>>

\* save_results writes the whole report; main() returns
SaveResults ==
    /\ pc = "save_results"
    /\ sorted_fields' = sorted(field_names)
    /\ report' = Written(sorted_fields', Len(ReportWrites(sorted_fields')))
    /\ pc' = "exit"
    /\ exit_code' = 0
    /\ UNCHANGED <<images, page, text, fields, field_names, error>>

\* open(self.output_path, 'w') raises
OpenFails ==
    /\ pc = "save_results"
    /\ sorted_fields' = sorted(field_names)
    /\ Exit1("open")
    /\ UNCHANGED <<images, page, text, fields, field_names, report>>

\* an f.write raises after n writes went through
WriteFails ==
    /\ pc = "save_results"
    /\ sorted_fields' = sorted(field_names)
    /\ \E n \in 0..(Len(ReportWrites(sorted_fields')) - 1) : report' = Written(sorted_fields', n)
    /\ Exit1("write")
    /\ UNCHANGED <<images, page, text, fields, field_names>>

Next ==
    \/ Construct
    \/ ConstructFails
    \/ Rasterize
    \/ RasterizeFails
    \/ ProcessPage
    \/ PageRaises
    \/ ReturnFields
    \/ SaveResults
    \/ OpenFails
    \/ WriteFails

Spec == Init /\ [][Next]_vars

-----------------------------------------------------------------------------
(* identify_field_names on its own *)

InitClassify ==
    /\ pc = "identify_field_names"
    /\ text \in ClassifierTexts
    /\ images = <<>>
    /\ page = 0
    /\ fields = <<>>
    /\ field_names = {}
    /\ sorted_fields = <<>>
    /\ report = NoFile
    /\ exit_code = Running
    /\ error = "none"

Identify ==
    /\ pc = "identify_field_names"
    /\ fields' = identify_field_names(text)
    /\ pc' = "return"
    /\ UNCHANGED <<images, page, text, field_names, sorted_fields, report, exit_code, error>>

NextClassify == Identify

SpecClassify == InitClassify /\ [][NextClassify]_vars

-----------------------------------------------------------------------------
(* Properties of identify_field_names, checked under SpecClassify *)

\* the rules whose pattern a stripped line matches
MatchingRules(line) == {k \in 1..5 : Pattern(k, line).matched}

\* the lowest-numbered rule of a non-empty set of rules
Lowest(M) == CHOOSE k \in M : \A h \in M : k <= h

\* the trimmed label rule k takes from a line
LabelOf(k, line) == Strip(Pattern(k, line).group)

\* the label of a line fails the length check of rule k (k in 1..4)
FailsLengthCheck(k, line) ==
    LET n == Len(LabelOf(k, line))
    IN  IF k = 4 THEN ~(n > 2 /\ n < 100) ELSE ~(n > 3 /\ n < 100)

Returned == pc = "return"
OneLine == "\n" \notin Range(text)

s_PolicyNumberColon == <<"P", "o", "l", "i", "c", "y", " ", "N", "u", "m", "b", "e", "r", ":">>
s_PolicyNumber == <<"P", "o", "l", "i", "c", "y", " ", "N", "u", "m", "b", "e", "r">>
s_NamedInsured == <<"N", "a", "m", "e", "d", " ", "I", "n", "s", "u", "r", "e", "d">>
s_NAMED_INSURED == <<"N", "A", "M", "E", "D", " ", "I", "N", "S", "U", "R", "E", "D">>
s_Address == <<"A", "d", "d", "r", "e", "s", "s">>
s_Yes == <<"Y", "e", "s">>
s_EffectiveDate == <<"E", "f", "f", "e", "c", "t", "i", "v", "e", " ", "D", "a", "t", "e">>
s_ZipCode == <<"Z", "i", "p", " ", "C", "o", "d", "e">>
s_AgentName == <<"A", "g", "e", "n", "t", " ", "N", "a", "m", "e">>

\* C1: the rules are tried in the order 1..5 and a non-empty line yields at most
\* one candidate, the label of the lowest-numbered rule whose pattern it
\* matches; a line matching rules 1 and 5 never yields a second candidate
\* through rule 5, and yields exactly the rule-1 label when rule 1 accepts it.
C1_FirstMatchWins ==
    Returned =>
        LET lines == Split(text, "\n")
            claimed == {i \in 1..Len(lines) : MatchingRules(Strip(lines[i])) # {}}
            labels == {LabelOf(Lowest(MatchingRules(Strip(lines[i]))), Strip(lines[i])) : i \in claimed}
            line == Strip(text)
            M == MatchingRules(line)
        IN  /\ Len(fields) <= Cardinality({i \in 1..Len(lines) : Strip(lines[i]) # <<>>})
            /\ Len(fields) <= Cardinality(claimed)
            /\ Range(fields) \subseteq labels
            /\ OneLine =>
                /\ Len(fields) <= 1
                /\ fields # <<>> => M # {} /\ fields = <<LabelOf(Lowest(M), line)>>
                /\ {1, 5} \subseteq M => fields \in {<<>>, <<LabelOf(1, line)>>}
                /\ ({1, 5} \subseteq M /\ Len(LabelOf(1, line)) > 3 /\ Len(LabelOf(1, line)) < 100)
                      => fields = <<LabelOf(1, line)>>

\* "Policy Number:" matches rules 1 and 5 and yields the one rule-1 label
C1_Witness ==
    /\ Returned
    /\ text = s_PolicyNumberColon
    /\ {1, 5} \subseteq MatchingRules(text)
    /\ fields = <<s_PolicyNumber>>

\* C2: the five-line page yields Named Insured, Address, Policy Number, Yes and
\* Effective Date, line i being claimed by rule i.
C2_EndToEnd ==
    (Returned /\ text = ExamplePage) =>
        LET lines == Split(text, "\n")
        IN  /\ Len(lines) = 5
            /\ fields = <<s_NamedInsured, s_Address, s_PolicyNumber, s_Yes, s_EffectiveDate>>
            /\ \A i \in 1..5 :
                  /\ Lowest(MatchingRules(Strip(lines[i]))) = i
                  /\ LineFields(lines[i]) = <<fields[i]>>
                  /\ LabelOf(i, Strip(lines[i])) = fields[i]

C2_Witness == Returned /\ text = ExamplePage /\ Len(fields) = 5

C10_AnyMatchedPattern ==
    (Returned /\ OneLine) =>
        \A k \in MatchingRules(Strip(text)) \cap 1..4 :
            FailsLengthCheck(k, Strip(text)) => fields = <<>>

\* C10 amended: a line whose lowest-numbered matching pattern is that of rule k
\* in 1..4 and whose label fails rule k's length check yields no candidate,
\* also when a later rule would have accepted it.
C10_LowestMatchedPattern ==
    (Returned /\ OneLine) =>
        LET line == Strip(text)
            M == MatchingRules(line)
        IN  (M # {} /\ Lowest(M) \in 1..4 /\ FailsLengthCheck(Lowest(M), line)) => fields = <<>>

\* "Abb:" is claimed by rule 1, fails its length check, and rule 5 would take it
C10_Witness ==
    /\ Returned
    /\ text = <<"A", "b", "b", ":">>
    /\ Lowest(MatchingRules(text)) = 1
    /\ FailsLengthCheck(1, text)
    /\ Rule(5, text) = << <<"A", "b", "b">> >>
    /\ fields = <<>>

-----------------------------------------------------------------------------
(* Properties of the run, checked under Spec *)

\* the candidates of the first n pages
PagesFound(n) == UNION {Range(identify_field_names(images[p])) : p \in 1..n}

\* the lines of the report file
ReportLines == Split(report.content, "\n")

\* the decimal numeral of n < 100
Decimal(n) ==
    LET d == <<"0", "1", "2", "3", "4", "5", "6", "7", "8", "9">>
    IN  IF n < 10 THEN <<d[n + 1]>> ELSE <<d[(n \div 10) + 1], d[(n % 10) + 1]>>

\* the name on a numbered line: what follows the first ". "
NameOnLine(line) == Slice(line, Find(line, ".") + 2, Len(line))

\* the permutations of 1..n
Perms(n) == {p \in [1..n -> 1..n] : \A a, b \in 1..n : p[a] = p[b] => a = b}

\* the set the loop of extract_fields builds from a sequence of pages
RECURSIVE SetAfter(_)
SetAfter(pages) ==
    IF pages = <<>> THEN {}
    ELSE update(SetAfter(SubSeq(pages, 1, Len(pages) - 1)),
                identify_field_names(pages[Len(pages)]))

Succeeded == pc = "exit" /\ exit_code = 0

\* C4: the set holds each candidate once, trimmed, compared by exact
\* case-sensitive equality; a name found on two pages or twice on a page is
\* written once in the report.
C4_Deduplicated ==
    /\ \A f \in field_names : f # <<>> /\ f[1] \notin Whitespace /\ f[Len(f)] \notin Whitespace
    /\ pc \in {"pages", "save_results", "exit"} => field_names = PagesFound(page)
    /\ Succeeded =>
        /\ Len(sorted_fields) = Cardinality(field_names)
        /\ \A f \in PagesFound(Len(images)) :
              /\ Cardinality({k \in 1..Len(sorted_fields) : sorted_fields[k] = f}) = 1
              /\ Cardinality({j \in 7..(Len(ReportLines) - 1) : NameOnLine(ReportLines[j]) = f}) = 1

\* "Named Insured" is found on both pages, once more with other whitespace, and
\* "NAMED INSURED" is kept beside it
C4_Witness ==
    /\ Succeeded
    /\ images = <<InsuredAgentPage, CapsPage>>
    /\ s_NamedInsured \in Range(identify_field_names(images[1]))
    /\ s_NamedInsured \in Range(identify_field_names(images[2]))
    /\ field_names = {s_NamedInsured, s_AgentName, s_NAMED_INSURED}
    /\ Len(sorted_fields) = 3

\* C5: the finalized sequence is in ascending lexicographic order and is the
\* same for every order of the pages; {Zip Code, Named Insured, Agent Name}
\* finalizes to [Agent Name, Named Insured, Zip Code].
C5_SortedAnyOrder ==
    Succeeded =>
        /\ \A k \in 1..(Len(sorted_fields) - 1) : StrLess(sorted_fields[k], sorted_fields[k + 1])
        /\ Range(sorted_fields) = field_names
        /\ \A p \in Perms(Len(images)) :
              sorted(SetAfter([k \in 1..Len(images) |-> images[p[k]]])) = sorted_fields
        /\ field_names = {s_ZipCode, s_NamedInsured, s_AgentName}
              => sorted_fields = <<s_AgentName, s_NamedInsured, s_ZipCode>>

\* Zip Code is inserted first and finalized last
C5_Witness ==
    /\ Succeeded
    /\ images = <<ZipPage, InsuredAgentPage>>
    /\ sorted_fields = <<s_AgentName, s_NamedInsured, s_ZipCode>>

\* C6: the set is empty at construction; a page step makes it the old set
\* union that page's candidates, which depend on that page only; no other step
\* changes it, so it never shrinks.
C6_GrowsMonotonically ==
    /\ [](pc \in {"main", "extract_fields"} => field_names = {})
    /\ [][/\ field_names \subseteq field_names'
          /\ page' # page =>
                /\ page' = page + 1
                /\ fields' = identify_field_names(images[page'])
                /\ field_names' = field_names \cup Range(fields')
          /\ page' = page => field_names' = field_names]_vars

\* after a later page the set still holds what earlier pages added
C6_Witness ==
    /\ page >= 2
    /\ fields # <<>>
    /\ Range(fields) \subseteq field_names
    /\ PagesFound(page - 1) \ Range(fields) # {}
    /\ PagesFound(page - 1) \subseteq field_names

\* C7: the report is opened only when every page has been merged into the set;
\* a missing input, a failed rasterization or a raising page step ends the run
\* with exit code 1 and no report file.
C7_ReportAfterAllPages ==
    /\ report.opened =>
          /\ pc = "exit"
          /\ page = Len(images)
          /\ field_names = PagesFound(Len(images))
          /\ error \in {"none", "write"}
    /\ error \in {"FileNotFoundError", "convert_from_path", "extract_text_from_image"} =>
          /\ pc = "exit"
          /\ exit_code = 1
          /\ report = NoFile
    /\ Succeeded => report.opened /\ page = Len(images)

\* a page raises after an earlier page found fields: exit 1 and no report
C7_Witness ==
    /\ pc = "exit"
    /\ error = "extract_text_from_image"
    /\ page >= 1
    /\ page < Len(images)
    /\ field_names # {}
    /\ exit_code = 1
    /\ report = NoFile

\* C8: a page with zero candidates is no error: identify_field_names returns
\* the empty list, the page step leaves the set as it is and stays in the loop
\* with no exit code set, and a run that ends with a nonzero exit code always
\* has another cause.
C8_ZeroFieldPage ==
    /\ []((page >= 1 /\ text = ProsePage) => fields = <<>>)
    /\ []((page >= 1 /\ fields = <<>>) => field_names = PagesFound(page - 1))
    /\ [][(page' # page /\ fields' = <<>>) =>
            /\ page' = page + 1
            /\ field_names' = field_names
            /\ pc' = "pages"
            /\ exit_code' = Running
            /\ error' = "none"]_vars
    /\ [][(pc = "pages" /\ pc' = "exit") => (text' = text /\ fields' = fields)]_vars
    /\ [](pc = "exit" =>
            /\ exit_code \in {0, 1}
            /\ exit_code = 0 <=> error = "none"
            /\ error \in {"none", "FileNotFoundError", "convert_from_path",
                          "extract_text_from_image", "open", "write"})

\* a prose page comes first, the page after it is still processed, exit code 0
C8_Witness ==
    /\ Succeeded
    /\ images = <<ProsePage, ZipPage>>
    /\ identify_field_names(images[1]) = <<>>
    /\ page = 2
    /\ field_names = {s_ZipCode}
    /\ report.opened

\* C9: the report is the header block (title, rule of 50, Source line, Total
\* Fields Found: N, rule of 50, blank line) followed by exactly N lines
\* "<k>. <k-th sorted name>", k = 1..N.
C9_ReportFormat ==
    Succeeded =>
        LET N == Cardinality(field_names)
            lines == ReportLines
        IN  /\ Len(sorted_fields) = N
            /\ Range(sorted_fields) = field_names
            /\ \A k \in 1..(N - 1) : StrLess(sorted_fields[k], sorted_fields[k + 1])
            /\ Len(lines) = 6 + N + 1
            /\ lines[1] = <<"A", "C", "O", "R", "D", " ", "F", "o", "r", "m", " ",
                            "F", "i", "e", "l", "d", " ", "N", "a", "m", "e", "s">>
            /\ Len(lines[2]) = 50 /\ Range(lines[2]) = {"="}
            /\ lines[3] = <<"S", "o", "u", "r", "c", "e", ":", " ">> \o PdfName
            /\ lines[4] = <<"T", "o", "t", "a", "l", " ", "F", "i", "e", "l", "d", "s", " ",
                            "F", "o", "u", "n", "d", ":", " ">> \o Decimal(N)
            /\ lines[5] = lines[2]
            /\ lines[6] = <<>>
            /\ \A k \in 1..N : lines[6 + k] = Decimal(k) \o <<".", " ">> \o sorted_fields[k]
            /\ lines[6 + N + 1] = <<>>

\* a report of ten or more names
C9_Witness ==
    /\ Succeeded
    /\ Len(sorted_fields) >= 10
    /\ Len(ReportLines) = 7 + Len(sorted_fields)

====
